---- MODULE Spec2Model ----
(***************************************************************************)
(* Model of the database seed route (GET) and its four per-table seed      *)
(* operations.  Strings are sequences of atoms (short pieces of text);     *)
(* String.prototype.includes is a contiguous-subsequence search, so that   *)
(* the substring tests of the route are computed, not assumed.             *)
(***************************************************************************)
EXTENDS Integers, Sequences, FiniteSets, TLC

(* ------------------------------ bounds --------------------------------- *)
MaxUrlLen == 2          \* atoms in a connection string
MaxMsgLen == 1          \* atoms in an error message
MaxRuns == 2            \* GET requests served one after the other
NumUsers == 1           \* fixture rows per table
NumCustomers == 1
NumInvoices == 1
NumRevenue == 1
NumSalts == 2           \* distinct salts bcrypt may draw
MaxTermLen == 2         \* atoms in a search term
MaxChanges == 3         \* change events of the search input
MaxIdleMs == 500        \* time followed after the last change event

(* ------------------------------ strings -------------------------------- *)
SeqsUpTo(S, n) == UNION { [1..k -> S] : k \in 0..n }

includes(s, t) ==
    \E i \in 0..(Len(s) - Len(t)) : SubSeq(s, i + 1, i + Len(t)) = t

(* The five markers tested by the route, each spelled as two atoms so that *)
(* a string may hold a prefix or suffix of a marker without holding it.    *)
MarkerSslmode == <<"sslmode=", "require">>
MarkerSslTrue == <<"ssl=", "true">>
MarkerAws == <<"amazonaws", ".com">>
MarkerNeon == <<"neon", ".tech">>
MarkerVercel == <<"vercel-storage", ".com">>

UrlAtoms == {"sslmode=", "require", "ssl=", "true", "amazonaws", ".com",
             "neon", ".tech", "vercel-storage", "postgres://localhost/db"}

(* process.env.POSTGRES_URL: unset, or set to a string *)
EnvVar(isSet, value) == [isSet |-> isSet, value |-> value]

NoUrl == EnvVar(FALSE, <<>>)

AllUrls == {NoUrl} \cup { EnvVar(TRUE, v) : v \in SeqsUpTo(UrlAtoms, MaxUrlLen) }

SmallUrls == {NoUrl, EnvVar(TRUE, <<>>),
              EnvVar(TRUE, <<"postgres://localhost/db", "sslmode=", "require">>)}

(* !process.env.POSTGRES_URL : undefined and '' are both falsy *)
missingUrlTreatsEmptyAsSet(env) == ~env.isSet

missingUrl(env) == ~env.isSet \/ env.value = <<>>

useSSLForgetsVercel(url) ==
    \/ includes(url, MarkerSslmode)
    \/ includes(url, MarkerSslTrue)
    \/ includes(url, MarkerAws)
    \/ includes(url, MarkerNeon)

useSSL(url) ==
    \/ includes(url, MarkerSslmode)
    \/ includes(url, MarkerSslTrue)
    \/ includes(url, MarkerAws)
    \/ includes(url, MarkerNeon)
    \/ includes(url, MarkerVercel)

(* second argument of postgres(): { ssl: 'require' } or {} *)
sslOption(url) == IF useSSL(url) THEN "require" ELSE "none"

(* ------------------------------ errors --------------------------------- *)
(* A value a promise may reject with.  undef: the value is undefined.      *)
(* code, errno: <<>> when the property is absent (or falsy).  extra: the   *)
(* other enumerable own properties as they appear in JSON.  circular:      *)
(* JSON.stringify throws on it.  The message of an Error is not enumerable *)
(* and so is not part of its JSON.                                         *)
Err(code, errno, message, extra, circular) ==
    [undef |-> FALSE, code |-> code, errno |-> errno, message |-> message,
     extra |-> extra, circular |-> circular]

Undefined ==
    [undef |-> TRUE, code |-> <<>>, errno |-> <<>>, message |-> <<>>,
     extra |-> <<>>, circular |-> FALSE]

ErrCodes == {<<>>, <<"ECONNREFUSED">>, <<"28000">>, <<"28P01">>, <<"XX000">>}
ErrErrnos == {<<>>, <<"-111">>}
MsgAtoms == {"ECONNREFUSED", "SSL", "password", "authentication", "failed"}
ErrExtras == {<<>>, <<"ECONNREFUSED">>, <<"SSL">>, <<"password">>}

AllErrors ==
    {Undefined} \cup
    { Err(c, n, m, x, z) : c \in ErrCodes, n \in ErrErrnos,
                           m \in SeqsUpTo(MsgAtoms, MaxMsgLen),
                           x \in ErrExtras, z \in BOOLEAN }

ConnRefused == Err(<<"ECONNREFUSED">>, <<"-111">>, <<"connect", "ECONNREFUSED">>, <<>>, FALSE)
InternalError == Err(<<"XX000">>, <<>>, <<"failed">>, <<>>, FALSE)
UniqueViolation == Err(<<"23505">>, <<>>, <<"duplicate key value">>, <<"users_email_key">>, FALSE)
TxAborted == Err(<<"25P02">>, <<>>, <<"current transaction is aborted">>, <<>>, FALSE)
ConnectionEnded == Err(<<"CONNECTION_ENDED">>, <<>>, <<"write CONNECTION_ENDED">>, <<>>, FALSE)
EndFailed == Err(<<>>, <<>>, <<"failed">>, <<>>, FALSE)
TypeError == Err(<<>>, <<>>, <<"Cannot read properties of undefined">>, <<>>, FALSE)

SmallErrors == {ConnRefused, InternalError, Undefined}

(* String(e): 'undefined', or name followed by the message *)
String(e) == IF e.undef THEN <<"undefined">> ELSE <<"Error">> \o e.message

(* JSON.stringify(e): not a string for undefined; throws when circular *)
stringify(e) == <<"{">> \o e.code \o e.errno \o e.extra \o <<"}">>

(* dbError?.code || dbError?.errno || '' *)
errorCodeOf(e) == IF e.code # <<>> THEN e.code ELSE e.errno

(* dbError?.message || String(dbError) || 'Database error occurred' *)
errorMessageOf(e) ==
    IF e.message # <<>> THEN e.message
    ELSE IF String(e) # <<>> THEN String(e)
    ELSE <<"Database error occurred">>

(* try { JSON.stringify } catch { String }; the flag says whether the      *)
(* result is a string at all (JSON.stringify(undefined) is undefined)      *)
errorStringIsString(e) == ~e.undef

errorStringOf(e) == IF e.circular THEN String(e) ELSE stringify(e)

(* ----------------------------- responses ------------------------------- *)
Response(status, shape, code, message) ==
    [status |-> status, shape |-> shape, code |-> code, message |-> message]

NoResponse == Response(0, "none", <<>>, <<>>)
Success == Response(200, "message", <<>>, <<"Database seeded successfully">>)
ErrorResponse(code, message) == Response(500, "error", code, message)

MissingEnvResponse ==
    ErrorResponse(<<"MISSING_ENV_VAR">>, <<"POSTGRES_URL environment variable is not set">>)

(* the outer catch of GET *)
unknownErrorRethrown(e) == NoResponse

unknownError(e) ==
    ErrorResponse(IF e.code # <<>> THEN e.code ELSE <<"UNKNOWN_ERROR">>,
                  IF e.message # <<>> THEN e.message
                  ELSE <<"An unexpected error occurred">>)

(* catch (connectionError): reading .code of undefined throws into the     *)
(* outer catch                                                             *)
connectionErrorResponse(e) ==
    IF e.undef THEN unknownError(TypeError)
    ELSE ErrorResponse(IF e.code # <<>> THEN e.code ELSE <<"CONNECTION_ERROR">>,
                       <<"Failed to create database connection">>)

isConnRefused(e) ==
    \/ errorCodeOf(e) = <<"ECONNREFUSED">>
    \/ includes(errorMessageOf(e), <<"ECONNREFUSED">>)
    \/ includes(errorStringOf(e), <<"ECONNREFUSED">>)

isSslError(e) ==
    \/ includes(errorMessageOf(e), <<"SSL">>)
    \/ errorCodeOf(e) = <<"28000">>
    \/ includes(errorStringOf(e), <<"SSL">>)

isAuthError(e) ==
    \/ errorCodeOf(e) = <<"28P01">>
    \/ includes(errorMessageOf(e), <<"password">>)
    \/ includes(errorMessageOf(e), <<"authentication">>)

(* does the classification itself throw?  The first test reaches           *)
(* errorString.includes only when the code and message tests are false.    *)
classifyThrows(e) ==
    /\ ~errorStringIsString(e)
    /\ errorCodeOf(e) # <<"ECONNREFUSED">>
    /\ ~includes(errorMessageOf(e), <<"ECONNREFUSED">>)

(* the chain of tests, first match wins *)
classifiedSslFirst(e) ==
    IF isSslError(e) THEN
        ErrorResponse(<<"SSL_ERROR">>, <<"SSL connection error">>)
    ELSE IF isConnRefused(e) THEN
        ErrorResponse(<<"ECONNREFUSED">>, <<"Unable to connect to the database">>)
    ELSE IF isAuthError(e) THEN
        ErrorResponse(<<"AUTH_ERROR">>, <<"Database authentication failed">>)
    ELSE ErrorResponse(IF errorCodeOf(e) # <<>> THEN errorCodeOf(e)
                       ELSE <<"DATABASE_ERROR">>, errorMessageOf(e))

classified(e) ==
    IF isConnRefused(e) THEN
        ErrorResponse(<<"ECONNREFUSED">>, <<"Unable to connect to the database">>)
    ELSE IF isSslError(e) THEN
        ErrorResponse(<<"SSL_ERROR">>, <<"SSL connection error">>)
    ELSE IF isAuthError(e) THEN
        ErrorResponse(<<"AUTH_ERROR">>, <<"Database authentication failed">>)
    ELSE ErrorResponse(IF errorCodeOf(e) # <<>> THEN errorCodeOf(e)
                       ELSE <<"DATABASE_ERROR">>, errorMessageOf(e))

(* the body of catch (dbError) after the close; a throw lands in the outer *)
(* catch                                                                   *)
classify(e) ==
    IF classifyThrows(e) THEN unknownError(TypeError) ELSE classified(e)

(* ------------------------------ fixtures ------------------------------- *)
(* placeholder-data: ids, emails, passwords, months stand for the distinct *)
(* strings of the fixture rows                                             *)
users == { [id |-> i, email |-> i, password |-> i] : i \in 1..NumUsers }
customers == { [id |-> i, name |-> i] : i \in 1..NumCustomers }
invoices == { [customer_id |-> i, amount |-> i] : i \in 1..NumInvoices }
revenue == { [month |-> i, revenue |-> i] : i \in 1..NumRevenue }

Ops == {"users", "customers", "invoices", "revenue"}

fixture(op) ==
    CASE op = "users" -> users
      [] op = "customers" -> customers
      [] op = "invoices" -> invoices
      [] op = "revenue" -> revenue

(* bcrypt.hash(password, 10): a salted hash, the salt drawn afresh *)
Salts == 1..NumSalts
hash(password, salt) == [plain |-> password, salt |-> salt]

(* ------------------------------ database ------------------------------- *)
EmptyDb ==
    [ext |-> FALSE, tables |-> {}, users |-> {}, customers |-> {},
     invoices |-> {}, revenue |-> {}]

QueryResult(d, outcome, error) == [db |-> d, outcome |-> outcome, error |-> error]

UndefinedTable == Err(<<"42P01">>, <<>>, <<"relation does not exist">>, <<>>, FALSE)
UndefinedFunction == Err(<<"42883">>, <<>>, <<"function uuid_generate_v4() does not exist">>, <<>>, FALSE)

(* CREATE EXTENSION IF NOT EXISTS "uuid-ossp" *)
createExtension(d) == QueryResult([d EXCEPT !.ext = TRUE], "ok", Undefined)

(* CREATE TABLE IF NOT EXISTS t; the id default of the three uuid tables   *)
(* names uuid_generate_v4, which the extension provides                    *)
createTable(d, t) ==
    IF t \in d.tables THEN QueryResult(d, "ok", Undefined)
    ELSE IF t # "revenue" /\ ~d.ext THEN QueryResult(d, "error", UndefinedFunction)
    ELSE QueryResult([d EXCEPT !.tables = @ \cup {t}], "ok", Undefined)

(* INSERT INTO users (id, name, email, password) ... ON CONFLICT (id) DO   *)
(* NOTHING: only a duplicate id is skipped; email is UNIQUE and is not the *)
(* conflict target, so a duplicate email under another id is an error      *)
insertUserSkipsEmailToo(d, u, h) ==
    IF "users" \notin d.tables THEN QueryResult(d, "error", UndefinedTable)
    ELSE IF \E r \in d.users : r.id = u.id \/ r.email = u.email
        THEN QueryResult(d, "skipped", Undefined)
    ELSE QueryResult([d EXCEPT !.users = @ \cup
            {[id |-> u.id, email |-> u.email, password |-> h]}], "inserted", Undefined)

insertUserUpdatesHash(d, u, h) ==
    IF "users" \notin d.tables THEN QueryResult(d, "error", UndefinedTable)
    ELSE IF \E r \in d.users : r.id = u.id
        THEN QueryResult([d EXCEPT !.users =
                { IF r.id = u.id THEN [r EXCEPT !.password = h] ELSE r : r \in @ }],
                "skipped", Undefined)
    ELSE IF \E r \in d.users : r.email = u.email
        THEN QueryResult(d, "error", UniqueViolation)
    ELSE QueryResult([d EXCEPT !.users = @ \cup
            {[id |-> u.id, email |-> u.email, password |-> h]}], "inserted", Undefined)

insertUser(d, u, h) ==
    IF "users" \notin d.tables THEN QueryResult(d, "error", UndefinedTable)
    ELSE IF \E r \in d.users : r.id = u.id THEN QueryResult(d, "skipped", Undefined)
    ELSE IF \E r \in d.users : r.email = u.email
        THEN QueryResult(d, "error", UniqueViolation)
    ELSE QueryResult([d EXCEPT !.users = @ \cup
            {[id |-> u.id, email |-> u.email, password |-> h]}], "inserted", Undefined)

(* INSERT INTO customers (id, ...) ... ON CONFLICT (id) DO NOTHING *)
insertCustomer(d, c) ==
    IF "customers" \notin d.tables THEN QueryResult(d, "error", UndefinedTable)
    ELSE IF \E r \in d.customers : r.id = c.id THEN QueryResult(d, "skipped", Undefined)
    ELSE QueryResult([d EXCEPT !.customers = @ \cup {c}], "inserted", Undefined)

(* INSERT INTO invoices (customer_id, amount, status, date) ... ON         *)
(* CONFLICT (id) DO NOTHING: no id is given, so the row takes the          *)
(* generated id uuid and never conflicts                                   *)
insertInvoice(d, inv, uuid) ==
    IF "invoices" \notin d.tables THEN QueryResult(d, "error", UndefinedTable)
    ELSE IF \E r \in d.invoices : r.id = uuid THEN QueryResult(d, "skipped", Undefined)
    ELSE QueryResult([d EXCEPT !.invoices = @ \cup
            {[id |-> uuid, customer_id |-> inv.customer_id, amount |-> inv.amount]}],
            "inserted", Undefined)

(* INSERT INTO revenue (month, revenue) ... ON CONFLICT (month) DO NOTHING *)
insertRevenue(d, rev) ==
    IF "revenue" \notin d.tables THEN QueryResult(d, "error", UndefinedTable)
    ELSE IF \E r \in d.revenue : r.month = rev.month THEN QueryResult(d, "skipped", Undefined)
    ELSE QueryResult([d EXCEPT !.revenue = @ \cup {rev}], "inserted", Undefined)

(* the INSERT of one op for fixture row x; salt and uuid are the values    *)
(* drawn by bcrypt and by uuid_generate_v4                                 *)
insertRow(d, op, x, salt, uuid) ==
    CASE op = "users" -> insertUser(d, x, hash(x.password, salt))
      [] op = "customers" -> insertCustomer(d, x)
      [] op = "invoices" -> insertInvoice(d, x, uuid)
      [] op = "revenue" -> insertRevenue(d, x)

(* ------------------------- database before a request ------------------- *)
(* rows an earlier seed stored (salt 0, generated ids below 0), and one    *)
(* account that someone else registered under the first fixture email      *)
foreignUser == [id |-> 0, email |-> 1, password |-> hash(0, 0)]
seededUsers == { [id |-> u.id, email |-> u.email, password |-> hash(u.password, 0)] : u \in users }
seededInvoices == { [id |-> 0 - i.customer_id, customer_id |-> i.customer_id, amount |-> i.amount] : i \in invoices }

uniqueUsers(rows) ==
    \A r1, r2 \in rows : (r1.id = r2.id \/ r1.email = r2.email) => r1 = r2

(* The users table varies freely; customers, invoices and revenue, which   *)
(* no statement relates to one another, are absent together, or present    *)
(* with the same share of their seeded rows.                               *)
InitDbs ==
    { d \in [ext : BOOLEAN, tables : SUBSET Ops,
             users : SUBSET (seededUsers \cup {foreignUser}),
             customers : SUBSET customers,
             invoices : SUBSET seededInvoices,
             revenue : SUBSET revenue] :
        /\ uniqueUsers(d.users)
        /\ \A t \in Ops : t \notin d.tables => d[t] = {}
        /\ (d.tables \ {"revenue"} # {}) => d.ext
        /\ d.tables \in {{}, {"users"}, Ops \ {"users"}, Ops}
        /\ \E k \in 0..NumCustomers :
              /\ d.customers = { c \in customers : c.id <= k }
              /\ d.invoices = { i \in seededInvoices : i.customer_id <= k }
              /\ d.revenue = { r \in revenue : r.month <= k } }

(* ------------------------------- state --------------------------------- *)
VARIABLES
    POSTGRES_URL,   \* process.env.POSTGRES_URL
    db,             \* committed contents of the database
    txdb,           \* contents as seen inside the open transaction
    txState,        \* "none", "open", "aborted", "committed", "rolledback"
    opPc,           \* position of each seed operation
    pending,        \* fixture rows of each operation not yet inserted
    rejection,      \* first rejection seen by the Promise.all of sql.begin
    pc,             \* position of GET
    dbError,        \* the value caught by catch (dbError)
    response,       \* the Response GET returned
    responses,      \* number of responses GET returned in this request
    endCalls,       \* number of sql.end() calls in this request
    ended,          \* sql.end() has been invoked on the connection
    created,        \* number of postgres() clients constructed in this request
    sslOpt,         \* ssl option given to postgres()
    begun,          \* number of sql.begin calls in this request
    queries,        \* some query was issued in this request
    faults,         \* failures the environment raised in this request
    endFailed,      \* some sql.end() of this request rejected
    runs,           \* requests started
    uuidSeq,        \* ids handed out by uuid_generate_v4
    db0,            \* database when the request started
    prev,           \* outcome of the previous request
    lastInsert,     \* the last INSERT executed inside the transaction
    lateQuery,      \* a seed query issued once the transaction was over
    completed,      \* "ext" and the tables whose CREATE completed in this request
    search          \* the Search component and the router it talks to

seedVars == <<POSTGRES_URL, db, txdb, txState, opPc, pending, rejection, pc, dbError,
          response, responses, endCalls, ended, created, sslOpt, begun, queries,
          faults, endFailed, runs, uuidSeq, db0, prev, lastInsert, lateQuery,
          completed>>

vars == <<seedVars, search>>

(* ------------------------------- Search -------------------------------- *)
pathname == "/dashboard/invoices"

Terms == SeqsUpTo({"a"}, MaxTermLen)

(* the query string: page ("none" when absent) and query (absent or a term) *)
Params(page, hasQuery, query) == [page |-> page, hasQuery |-> hasQuery, query |-> query]

SearchParams ==
    { Params(p, FALSE, <<>>) : p \in {"none", "1", "2"} } \cup
    { Params(p, TRUE, t) : p \in {"none", "1", "2"}, t \in Terms \ {<<>>} }

(* defaultValue: searchParams.get('query')?.toString() *)
defaultValue(params) == IF params.hasQuery THEN params.query ELSE <<>>

(* The component as rendered: input is the value of the text box, idleMs   *)
(* the time since its last change event, dropped the debounced callbacks   *)
(* that were created and never called, replaceCalls the arguments of the   *)
(* router's replace so far.                                                *)
mounted(params) ==
    [params |-> params, input |-> defaultValue(params), idleMs |-> 0,
     changes |-> 0, dropped |-> 0, threw |-> FALSE, replaceCalls |-> <<>>]

NoRejection == [set |-> FALSE, error |-> Undefined]
NoInsert ==
    [op |-> "none", targetExisted |-> FALSE, otherKeyExisted |-> FALSE,
     outcome |-> "none", changed |-> FALSE]

SeedInit(urls, dbs) ==
    /\ POSTGRES_URL \in urls
    /\ db \in dbs
    /\ txdb = EmptyDb
    /\ txState = "none"
    /\ opPc = [op \in Ops |-> "idle"]
    /\ pending = [op \in Ops |-> {}]
    /\ rejection = NoRejection
    /\ pc = "idle"
    /\ dbError = Undefined
    /\ response = NoResponse
    /\ responses = 0
    /\ endCalls = 0
    /\ ended = FALSE
    /\ created = 0
    /\ sslOpt = "unset"
    /\ begun = 0
    /\ queries = FALSE
    /\ faults = 0
    /\ endFailed = FALSE
    /\ runs = 0
    /\ uuidSeq = 0
    /\ db0 = db
    /\ prev = [valid |-> FALSE, ok |-> FALSE, db |-> EmptyDb]
    /\ lastInsert = NoInsert
    /\ lateQuery = "none"
    /\ completed = {}

InitWith(urls, dbs) ==
    /\ SeedInit(urls, dbs)
    /\ search = mounted(Params("none", FALSE, <<>>))

Init == InitWith(SmallUrls, InitDbs)

(* ------------------------------- GET ----------------------------------- *)
(* A request is accepted when the previous one has returned and none of    *)
(* its inserts is still waiting for its hash.                              *)
Accepting ==
    /\ pc \in {"idle", "done"}
    /\ runs < MaxRuns
    /\ pending["users"] = {}

NewRequest ==
    /\ Accepting
    /\ runs' = runs + 1
    /\ db0' = db
    /\ prev' = [valid |-> runs > 0, ok |-> response = Success, db |-> db]
    /\ txdb' = EmptyDb
    /\ txState' = "none"
    /\ opPc' = [op \in Ops |-> "idle"]
    /\ pending' = [op \in Ops |-> {}]
    /\ rejection' = NoRejection
    /\ endCalls' = 0
    /\ ended' = FALSE
    /\ begun' = 0
    /\ queries' = FALSE
    /\ endFailed' = FALSE
    /\ lastInsert' = NoInsert
    /\ lateQuery' = "none"
    /\ completed' = {}
    /\ UNCHANGED <<POSTGRES_URL, db, uuidSeq, search>>

(* the configuration check fails: the response is returned at once *)
GetMissingEnv ==
    /\ NewRequest
    /\ missingUrl(POSTGRES_URL)
    /\ response' = MissingEnvResponse
    /\ responses' = 1
    /\ pc' = "done"
    /\ created' = 0
    /\ sslOpt' = "unset"
    /\ faults' = 0
    /\ dbError' = Undefined

(* postgres(url, options) throws *)
GetConnectThrows ==
    /\ NewRequest
    /\ ~missingUrl(POSTGRES_URL)
    /\ \E connectionError \in SmallErrors :
          response' = connectionErrorResponse(connectionError)
    /\ responses' = 1
    /\ pc' = "done"
    /\ created' = 0
    /\ sslOpt' = sslOption(POSTGRES_URL.value)
    /\ faults' = 1
    /\ dbError' = Undefined

(* the client is constructed and sql.begin is called; GET waits for it *)
GetConnect ==
    /\ NewRequest
    /\ ~missingUrl(POSTGRES_URL)
    /\ response' = NoResponse
    /\ responses' = 0
    /\ pc' = "begin"
    /\ created' = 1
    /\ sslOpt' = sslOption(POSTGRES_URL.value)
    /\ faults' = 0
    /\ dbError' = Undefined

(* BEGIN fails (the client connects lazily, so a refused, SSL or           *)
(* authentication failure of the connection shows here): sql.begin rejects *)
BeginFails(errors) ==
    /\ pc = "begin"
    /\ \E e \in errors : dbError' = e
    /\ pc' = "catch"
    /\ begun' = 1
    /\ queries' = TRUE
    /\ faults' = faults + 1
    /\ UNCHANGED <<POSTGRES_URL, db, txdb, txState, opPc, pending, rejection,
                   response, responses, endCalls, ended, created, sslOpt,
                   endFailed, runs, uuidSeq, db0, prev, lastInsert, lateQuery,
                   completed, search>>

(* the first statement of each seed operation: CREATE EXTENSION in         *)
(* seedUsers, seedCustomers and seedInvoices, CREATE TABLE in seedRevenue  *)
firstStageSkipsExtension(op) == "create"

firstStage(op) == IF op = "revenue" THEN "create" ELSE "ext"

(* BEGIN succeeds and the callback starts the four seed operations; each   *)
(* issues its first query                                                  *)
BeginOk ==
    /\ pc = "begin"
    /\ pc' = "running"
    /\ begun' = 1
    /\ queries' = TRUE
    /\ txState' = "open"
    /\ txdb' = db
    /\ opPc' = [op \in Ops |-> firstStage(op)]
    /\ pending' = [op \in Ops |-> fixture(op)]
    /\ UNCHANGED <<POSTGRES_URL, db, rejection, dbError, response, responses,
                   endCalls, ended, created, sslOpt, faults, endFailed, runs,
                   uuidSeq, db0, prev, lastInsert, lateQuery,
                   completed, search>>

(* --------------------------- seed operations --------------------------- *)
key(op, x) ==
    CASE op = "users" -> x.id
      [] op = "customers" -> x.id
      [] op = "invoices" -> x.customer_id
      [] op = "revenue" -> x.month

(* the row's value of the ON CONFLICT column is already in the table *)
targetExists(d, op, x, uuid) ==
    CASE op = "users" -> \E r \in d.users : r.id = x.id
      [] op = "customers" -> \E r \in d.customers : r.id = x.id
      [] op = "invoices" -> \E r \in d.invoices : r.id = uuid
      [] op = "revenue" -> \E r \in d.revenue : r.month = x.month

(* the row's value of a UNIQUE column that is not the ON CONFLICT column   *)
(* (users.email is the only one) is already in the table                   *)
otherKeyExists(d, op, x) ==
    op = "users" /\ \E r \in d.users : r.email = x.email

(* The inserts of customers, invoices and revenue are issued together in   *)
(* fixture order; an insert of users is issued when its hash is ready.     *)
nextRows(op) ==
    IF op = "users" THEN pending[op]
    ELSE { x \in pending[op] : \A y \in pending[op] : key(op, x) <= key(op, y) }

(* the operation's promise rejects; Promise.all keeps the first rejection. *)
(* The other inserts of customers, invoices and revenue are already queued *)
(* behind the failed one and fail with it; those of users still wait for   *)
(* their hashes.                                                           *)
Reject(op, e, remaining) ==
    /\ opPc' = [opPc EXCEPT ![op] = "failed"]
    /\ rejection' = IF rejection.set THEN rejection ELSE [set |-> TRUE, error |-> e]
    /\ pending' = [pending EXCEPT ![op] = remaining]

afterFailureOf(op, x) == IF op = "users" THEN pending[op] \ {x} ELSE {}

(* CREATE EXTENSION / CREATE TABLE of one operation, inside the transaction *)
SchemaQuery(op) ==
    /\ pc = "running" /\ txState = "open"
    /\ opPc[op] \in {"ext", "create"}
    /\ LET r == IF opPc[op] = "ext" THEN createExtension(txdb)
                ELSE createTable(txdb, op)
       IN IF r.outcome = "error"
          THEN /\ Reject(op, r.error, {})
               /\ txState' = "aborted"
               /\ txdb' = txdb
               /\ completed' = completed
          ELSE /\ txdb' = r.db
               /\ opPc' = [opPc EXCEPT ![op] =
                              IF @ = "ext" THEN "create"
                              ELSE IF pending[op] = {} THEN "done" ELSE "insert"]
               /\ completed' = completed \cup {IF opPc[op] = "ext" THEN "ext" ELSE op}
               /\ UNCHANGED <<txState, rejection, pending>>
    /\ queries' = TRUE
    /\ UNCHANGED <<POSTGRES_URL, db, pc, dbError, response, responses, endCalls,
                   ended, created, sslOpt, begun, faults, endFailed, runs,
                   uuidSeq, db0, prev, lastInsert, lateQuery, search>>

(* one INSERT inside the open transaction *)
InsertQuery(op) ==
    /\ pc = "running" /\ txState = "open"
    /\ opPc[op] = "insert"
    /\ \E x \in nextRows(op), salt \in Salts :
        LET uuid == uuidSeq + 1
            r == insertRow(txdb, op, x, salt, uuid)
        IN /\ lastInsert' = [op |-> op, targetExisted |-> targetExists(txdb, op, x, uuid),
                             otherKeyExisted |-> otherKeyExists(txdb, op, x),
                             outcome |-> r.outcome, changed |-> r.db # txdb]
           /\ uuidSeq' = IF op = "invoices" THEN uuid ELSE uuidSeq
           /\ queries' = TRUE
           /\ IF r.outcome = "error"
              THEN /\ Reject(op, r.error, afterFailureOf(op, x))
                   /\ txState' = "aborted"
                   /\ txdb' = txdb
              ELSE /\ txdb' = r.db
                   /\ pending' = [pending EXCEPT ![op] = @ \ {x}]
                   /\ opPc' = [opPc EXCEPT ![op] =
                                  IF pending[op] = {x} THEN "done" ELSE "insert"]
                   /\ UNCHANGED <<txState, rejection>>
    /\ UNCHANGED <<POSTGRES_URL, db, pc, dbError, response, responses, endCalls,
                   ended, created, sslOpt, begun, faults, endFailed,
                   runs, db0, prev, lateQuery,
                   completed, search>>

(* the database fails a query of the open transaction *)
QueryFault(op) ==
    /\ pc = "running" /\ txState = "open"
    /\ opPc[op] \in {"ext", "create", "insert"}
    /\ \/ opPc[op] \in {"ext", "create"} /\ Reject(op, InternalError, {})
       \/ /\ opPc[op] = "insert"
          /\ \E x \in nextRows(op) : Reject(op, InternalError, afterFailureOf(op, x))
    /\ txState' = "aborted"
    /\ faults' = faults + 1
    /\ UNCHANGED <<POSTGRES_URL, db, txdb, pc, dbError, response, responses,
                   endCalls, ended, created, sslOpt, begun, queries, endFailed,
                   runs, uuidSeq, db0, prev, lastInsert, lateQuery,
                   completed, search>>

(* a query issued in the aborted transaction fails with 25P02 *)
QueryInAbortedTx(op) ==
    /\ pc = "running" /\ txState = "aborted"
    /\ \/ opPc[op] \in {"ext", "create"} /\ Reject(op, TxAborted, {})
       \/ /\ opPc[op] = "insert" \/ (op = "users" /\ opPc[op] = "failed")
          /\ \E x \in nextRows(op) : Reject(op, TxAborted, afterFailureOf(op, x))
    /\ UNCHANGED <<POSTGRES_URL, db, txdb, txState, pc, dbError, response,
                   responses, endCalls, ended, created, sslOpt, begun, queries,
                   faults, endFailed, runs, uuidSeq, db0, prev, lastInsert, lateQuery,
                   completed, search>>

(* all four operations resolved: COMMIT, and sql.begin resolves *)
Commit ==
    /\ pc = "running" /\ txState = "open"
    /\ \A op \in Ops : opPc[op] = "done"
    /\ db' = txdb
    /\ txState' = "committed"
    /\ pc' = "end"
    /\ queries' = TRUE
    /\ UNCHANGED <<POSTGRES_URL, txdb, opPc, pending, rejection, dbError, response,
                   responses, endCalls, ended, created, sslOpt, begun, faults,
                   endFailed, runs, uuidSeq, db0, prev, lastInsert, lateQuery,
                   completed, search>>

(* Promise.all rejected: ROLLBACK, and sql.begin rejects with the first    *)
(* rejection.  ROLLBACK is queued behind the queries already issued, so    *)
(* every operation that was waiting for a query has failed by now; only    *)
(* inserts of users that still wait for their hash remain.                 *)
Rollback ==
    /\ pc = "running" /\ rejection.set
    /\ \A op \in Ops \ {"users"} : opPc[op] \in {"done", "failed"}
    /\ opPc["users"] \in {"insert", "done", "failed"}
    /\ txState' = "rolledback"
    /\ txdb' = db
    /\ dbError' = rejection.error
    /\ pc' = "catch"
    /\ queries' = TRUE
    /\ UNCHANGED <<POSTGRES_URL, db, opPc, pending, rejection, response, responses,
                   endCalls, ended, created, sslOpt, begun, faults, endFailed,
                   runs, uuidSeq, db0, prev, lastInsert, lateQuery,
                   completed, search>>

(* An insert of users whose hash becomes ready after ROLLBACK and before   *)
(* sql.end(): the transaction is over and the connection is back in the    *)
(* pool, so the statement runs on its own and is committed at once.        *)
StragglerAutocommit ==
    /\ pc = "catch" /\ txState = "rolledback" /\ ~ended
    /\ \E x \in pending["users"], salt \in Salts :
        LET r == insertUser(db, x, hash(x.password, salt))
        IN /\ db' = r.db
           /\ pending' = [pending EXCEPT !["users"] = @ \ {x}]
           /\ opPc' = [opPc EXCEPT !["users"] =
                          IF r.outcome = "error" THEN "failed"
                          ELSE IF @ = "insert" /\ pending["users"] = {x} THEN "done"
                          ELSE @]
    /\ lateQuery' = "afterRollback"
    /\ UNCHANGED <<POSTGRES_URL, txdb, txState, rejection, pc, dbError, response,
                   responses, endCalls, ended, created, sslOpt, begun, queries,
                   faults, endFailed, runs, uuidSeq, db0, prev, lastInsert,
                   completed, search>>

(* the same insert, refused by the client because its transaction is over, *)
(* or issued after sql.end(), when the connection no longer takes queries  *)
StragglerRejected ==
    /\ pc \in {"catch", "classify", "done"} /\ txState = "rolledback"
    /\ \E x \in pending["users"] :
          pending' = [pending EXCEPT !["users"] = @ \ {x}]
    /\ opPc' = [opPc EXCEPT !["users"] = "failed"]
    /\ lateQuery' = IF ended THEN "afterEnd" ELSE "afterRollback"
    /\ UNCHANGED <<POSTGRES_URL, db, txdb, txState, rejection, pc, dbError,
                   response, responses, endCalls, ended, created, sslOpt, begun,
                   queries, faults, endFailed, runs, uuidSeq, db0, prev, lastInsert,
                   completed, search>>

(* sql.end() is invoked: once after the commit, once in catch (dbError) *)
closeAfterCommit(calls) == calls + 1

closeOnErrorForgotten(calls) == calls

closeOnError(calls) == calls + 1

(* await sql.end() after the commit resolves: the success response *)
EndOk ==
    /\ pc = "end"
    /\ endCalls' = closeAfterCommit(endCalls)
    /\ ended' = TRUE
    /\ response' = Success
    /\ responses' = responses + 1
    /\ pc' = "done"
    /\ UNCHANGED <<POSTGRES_URL, db, txdb, txState, opPc, pending, rejection,
                   dbError, created, sslOpt, begun, queries, faults, endFailed,
                   runs, uuidSeq, db0, prev, lastInsert, lateQuery,
                   completed, search>>

(* await sql.end() after the commit rejects: the await throws inside the   *)
(* try block, into catch (dbError)                                         *)
EndRejects ==
    /\ pc = "end"
    /\ endCalls' = closeAfterCommit(endCalls)
    /\ ended' = TRUE
    /\ endFailed' = TRUE
    /\ faults' = faults + 1
    /\ dbError' = EndFailed
    /\ pc' = "catch"
    /\ UNCHANGED <<POSTGRES_URL, db, txdb, txState, opPc, pending, rejection,
                   response, responses, created, sslOpt, begun, queries, runs,
                   uuidSeq, db0, prev, lastInsert, lateQuery,
                   completed, search>>

(* await sql.end().catch(() => {}): whether the close resolves or rejects, *)
(* the await resolves                                                      *)
CatchEnd ==
    /\ pc = "catch"
    /\ endCalls' = closeOnError(endCalls)
    /\ ended' = TRUE
    /\ \E closeRejects \in BOOLEAN : endFailed' = (endFailed \/ closeRejects)
    /\ pc' = "classify"
    /\ UNCHANGED <<POSTGRES_URL, db, txdb, txState, opPc, pending, rejection,
                   dbError, response, responses, created, sslOpt, begun, queries,
                   faults, runs, uuidSeq, db0, prev, lastInsert, lateQuery,
                   completed, search>>

(* the rest of catch (dbError); a throw in it is caught by the outer catch *)
Classify ==
    /\ pc = "classify"
    /\ response' = classify(dbError)
    /\ responses' = responses + 1
    /\ pc' = "done"
    /\ UNCHANGED <<POSTGRES_URL, db, txdb, txState, opPc, pending, rejection,
                   dbError, endCalls, ended, created, sslOpt, begun, queries,
                   faults, endFailed, runs, uuidSeq, db0, prev, lastInsert, lateQuery,
                   completed, search>>

(* ---------------------------- specifications --------------------------- *)
Next ==
    \/ GetMissingEnv
    \/ GetConnectThrows
    \/ GetConnect
    \/ BeginFails(SmallErrors)
    \/ BeginOk
    \/ \E op \in Ops : SchemaQuery(op)
    \/ \E op \in Ops : InsertQuery(op)
    \/ \E op \in Ops : QueryFault(op)
    \/ \E op \in Ops : QueryInAbortedTx(op)
    \/ Commit
    \/ Rollback
    \/ StragglerAutocommit
    \/ StragglerRejected
    \/ EndOk
    \/ EndRejects
    \/ CatchEnd
    \/ Classify

Spec == Init /\ [][Next]_vars

(* Requests whose connection fails at BEGIN, over every error value of the *)
(* bounded set: the input space of the classification.                     *)
InitClassify ==
    InitWith({EnvVar(TRUE, <<"postgres://localhost/db">>)}, {EmptyDb})

NextClassify ==
    \/ GetConnect
    \/ BeginFails(AllErrors)
    \/ CatchEnd
    \/ Classify

SpecClassify == InitClassify /\ [][NextClassify]_vars

(* Requests over every connection string of the bounded set, up to the     *)
(* construction of the client and a BEGIN that fails.                      *)
InitSSL == InitWith(AllUrls, {EmptyDb})

NextSSL ==
    \/ GetMissingEnv
    \/ GetConnectThrows
    \/ GetConnect
    \/ BeginFails(SmallErrors)
    \/ CatchEnd
    \/ Classify

SpecSSL == InitSSL /\ [][NextSSL]_vars

(* The Search component: change events of the text box, and time passing.  *)
(* onChange calls the outer handleSearch(term), whose whole body is the    *)
(* call of useDebouncedCallback: the debounced function it returns is      *)
(* bound to a local constant and dropped, or the hook, called outside of a *)
(* render, throws.  Either way the debounced function is not called, so no *)
(* timer is started and its body, which calls replace, does not run.       *)
Change ==
    /\ search.changes < MaxChanges
    /\ \E term \in Terms \ {search.input}, hookThrows \in BOOLEAN :
          search' = [search EXCEPT !.input = term,
                                   !.idleMs = 0,
                                   !.changes = @ + 1,
                                   !.dropped = IF hookThrows THEN @ ELSE @ + 1,
                                   !.threw = hookThrows]
    /\ UNCHANGED seedVars

(* 100 ms pass with no change event; no timer is pending *)
Tick ==
    /\ search.idleMs < MaxIdleMs
    /\ search' = [search EXCEPT !.idleMs = @ + 100]
    /\ UNCHANGED seedVars

InitSearch ==
    /\ SeedInit({EnvVar(TRUE, <<"postgres://localhost/db">>)}, {EmptyDb})
    /\ \E params \in SearchParams : search = mounted(params)

NextSearch ==
    \/ Change
    \/ Tick

SpecSearch == InitSearch /\ [][NextSearch]_vars

(* ============================== claims ================================= *)
Returned == pc = "done" /\ runs > 0

(* C1: seeding is idempotent: a GET that follows a successful GET, with no *)
(* failure raised by the environment, also answers 200 and leaves all four *)
(* tables with exactly the rows they had after the first.                  *)
C1_SeedingIdempotent ==
    (Returned /\ prev.valid /\ prev.ok /\ faults = 0)
        => (response = Success /\ db = prev.db)

(* C2: whenever GET has returned and a database client was created in the  *)
(* request, sql.end has been invoked.                                      *)
C2_ConnectionClosed ==
    (Returned /\ created > 0) => (endCalls >= 1 /\ ended)

C2_Witness ==
    /\ Returned /\ created = 1 /\ rejection.set
    /\ response.status = 500 /\ endCalls = 1

(* C3: if any of the four seed operations fails, nothing the operations of *)
(* this request created or inserted persists, and the response is a 500.   *)
C3_SeedAtomic ==
    /\ (txState = "rolledback") => db = db0
    /\ (Returned /\ rejection.set) => response.status = 500

(* C4: with POSTGRES_URL absent or empty GET answers 500 MISSING_ENV_VAR   *)
(* and no client is constructed, no transaction begun, no query issued and *)
(* no close invoked.                                                       *)
C4_MissingEnvNoWork ==
    (runs > 0 /\ (~POSTGRES_URL.isSet \/ POSTGRES_URL.value = <<>>))
        => /\ pc = "done"
           /\ response.status = 500
           /\ response.code = <<"MISSING_ENV_VAR">>
           /\ created = 0 /\ sslOpt = "unset"
           /\ begun = 0 /\ ~queries /\ endCalls = 0 /\ ~ended
           /\ db = db0

C4_Witness ==
    /\ Returned /\ POSTGRES_URL = EnvVar(TRUE, <<>>)
    /\ response.code = <<"MISSING_ENV_VAR">>

(* C5: a transaction failure with an error object is classified by fixed   *)
(* priority: connection refused, else SSL, else authentication, else the   *)
(* error's own code (DATABASE_ERROR when it carries none) and message.     *)
C5_Carried(e) == IF e.code # <<>> THEN e.code ELSE e.errno

C5_Mentions(e, atom) == \E i \in 1..Len(e.message) : e.message[i] = atom

C5_Serialised(e, atom) ==
    \E i \in 1..Len(errorStringOf(e)) : errorStringOf(e)[i] = atom

C5_Refused(e) ==
    \/ C5_Carried(e) = <<"ECONNREFUSED">>
    \/ C5_Mentions(e, "ECONNREFUSED")
    \/ C5_Serialised(e, "ECONNREFUSED")

C5_Ssl(e) ==
    \/ C5_Carried(e) = <<"28000">>
    \/ C5_Mentions(e, "SSL")
    \/ C5_Serialised(e, "SSL")

C5_Auth(e) ==
    \/ C5_Carried(e) = <<"28P01">>
    \/ C5_Mentions(e, "password")
    \/ C5_Mentions(e, "authentication")

C5_Classified == Returned /\ created = 1 /\ begun = 1 /\ ~dbError.undef

C5_PriorityOrder ==
    C5_Classified =>
        /\ response.status = 500
        /\ C5_Refused(dbError) => response.code = <<"ECONNREFUSED">>
        /\ (~C5_Refused(dbError) /\ C5_Ssl(dbError))
              => response.code = <<"SSL_ERROR">>
        /\ (~C5_Refused(dbError) /\ ~C5_Ssl(dbError) /\ C5_Auth(dbError))
              => response.code = <<"AUTH_ERROR">>
        /\ (~C5_Refused(dbError) /\ ~C5_Ssl(dbError) /\ ~C5_Auth(dbError))
              => /\ response.code = IF C5_Carried(dbError) # <<>>
                                    THEN C5_Carried(dbError)
                                    ELSE <<"DATABASE_ERROR">>
                 /\ dbError.message # <<>> => response.message = dbError.message

(* an error that is at once refused, SSL and authentication *)
C5_Witness ==
    /\ C5_Classified
    /\ C5_Refused(dbError) /\ C5_Ssl(dbError) /\ C5_Auth(dbError)
    /\ response.code = <<"ECONNREFUSED">>

(* C6: GET returns exactly one response, either 200 with the success       *)
(* message or 500 with an error body that has a message and a code; no     *)
(* failure leaves GET without a response.                                  *)
C6_OneStructuredResponse ==
    /\ responses <= 1
    /\ pc # "done" => responses = 0
    /\ Returned =>
          /\ responses = 1
          /\ \/ response = Success
             \/ /\ response.status = 500
                /\ response.shape = "error"
                /\ response.code # <<>>
                /\ response.message # <<>>

(* the classification itself threw and the outer catch answered *)
C6_Witness ==
    /\ Returned /\ created = 1 /\ dbError.undef /\ endCalls = 1
    /\ response.code = <<"UNKNOWN_ERROR">>

(* C7: a failing close never changes the response: when the transaction    *)
(* committed the response is the 200 success, when it failed the code is   *)
(* the one the primary error determines.                                   *)
C7_CloseFailureSuppressed ==
    /\ (Returned /\ txState = "committed") => response = Success
    /\ (Returned /\ txState = "rolledback") => response = classify(rejection.error)

(* C8: on every failure path after the client was created, sql.end is      *)
(* invoked exactly once.                                                   *)
C8_EndExactlyOnce ==
    (Returned /\ response.status = 500 /\ created = 1) => endCalls = 1

(* C9 as stated: an insert of a fixture row whose primary or unique key    *)
(* (users.id, users.email, customers.id, invoices.id, revenue.month) is    *)
(* already in the table is skipped: no change and no error.                *)
C9_AnyKeySkipped ==
    (lastInsert.targetExisted \/ lastInsert.otherKeyExisted)
        => (lastInsert.outcome = "skipped" /\ ~lastInsert.changed)

(* C9 amended: an insert whose ON CONFLICT column value (users.id,         *)
(* customers.id, invoices.id, revenue.month) is already in the table is    *)
(* skipped with no change and no error; a users row whose email is already *)
(* there under another id is not skipped: it raises a unique violation and *)
(* changes nothing.                                                        *)
C9_ConflictTargetSkipped ==
    /\ lastInsert.targetExisted
          => (lastInsert.outcome = "skipped" /\ ~lastInsert.changed)
    /\ (lastInsert.otherKeyExisted /\ ~lastInsert.targetExisted)
          => (lastInsert.op = "users" /\ lastInsert.outcome = "error"
              /\ ~lastInsert.changed)

C9_Witness ==
    /\ lastInsert.op = "users" /\ lastInsert.otherKeyExisted
    /\ ~lastInsert.targetExisted /\ lastInsert.outcome = "error"

(* C10: the client is constructed with ssl 'require' exactly when the      *)
(* connection string holds one of the five markers, and with no ssl option *)
(* otherwise.                                                              *)
C10_Markers == {MarkerSslmode, MarkerSslTrue, MarkerAws, MarkerNeon, MarkerVercel}

C10_HasMarker(v) == \E i \in 1..(Len(v) - 1) : <<v[i], v[i + 1]>> \in C10_Markers

C10_SslSelection ==
    created = 1 =>
        /\ C10_HasMarker(POSTGRES_URL.value) => sslOpt = "require"
        /\ ~C10_HasMarker(POSTGRES_URL.value) => sslOpt = "none"

C10_Witness ==
    /\ created = 1 /\ sslOpt = "require"
    /\ POSTGRES_URL.value = MarkerVercel

(* C11: fan-out/fan-in: once the connection close has been invoked no seed *)
(* operation is still running and no seed query is issued, also when one   *)
(* operation failed early.                                                 *)
C11_Running(op) == opPc[op] \in {"ext", "create", "insert"} \/ pending[op] # {}

C11_FanIn ==
    ended => /\ \A op \in Ops : ~C11_Running(op)
             /\ lateQuery # "afterEnd"

(* C12: the UUID extension install has completed before the CREATE TABLE  *)
(* of users, customers or invoices is issued, and the CREATE TABLE of a    *)
(* table has completed before any INSERT into it is issued; so inside the  *)
(* open transaction the function and the table are there when needed.      *)
C12_UuidTables == {"users", "customers", "invoices"}

C12_Ordering ==
    /\ \A op \in C12_UuidTables :
          opPc[op] \in {"create", "insert", "done"} => "ext" \in completed
    /\ \A op \in Ops :
          (\/ opPc[op] \in {"insert", "done"}
           \/ lastInsert.op = op
           \/ op = "users" /\ lateQuery # "none") => op \in completed
    /\ \A op \in C12_UuidTables :
          (txState = "open" /\ opPc[op] = "create") => txdb.ext
    /\ \A op \in Ops :
          (txState = "open" /\ opPc[op] = "insert") => op \in txdb.tables

(* seedUsers is at its inserts while seedCustomers has not yet installed   *)
(* the extension, in a database that had neither extension nor tables      *)
C12_Witness ==
    /\ txState = "open" /\ ~db0.ext /\ db0.tables = {}
    /\ opPc["users"] = "insert" /\ opPc["customers"] = "ext"
    /\ opPc["revenue"] = "insert"

(* C13: no row is mutated after insert: every row (and table) that was in  *)
(* the database when the request started is there unchanged at every later *)
(* point of the request, inside the transaction and after it, whatever the *)
(* outcome; a stored password hash is never replaced by a new one.         *)
C13_NoMutation ==
    runs > 0 =>
        /\ db0.tables \subseteq db.tables
        /\ \A t \in Ops : db0[t] \subseteq db[t]
        /\ txState = "open" => \A t \in Ops : db0[t] \subseteq txdb[t]

(* a successful re-run over a user stored with an older hash *)
C13_Witness ==
    /\ Returned /\ response = Success
    /\ \E r \in db0.users : r.id = 1 /\ r.password = hash(1, 0) /\ r \in db.users
    /\ db # db0

(* C14: the search box is debounced: once the input changed to a term and *)
(* more than 300 ms passed with no further change, replace has been called *)
(* for that term, once per burst of changes at most, with the current path *)
(* and the query parameters in which page is '1' and query is the term (or *)
(* is removed when the term is empty).                                     *)
C14_Expected(params, term) ==
    [path |-> pathname,
     params |-> [params EXCEPT !.page = "1",
                               !.hasQuery = (term # <<>>),
                               !.query = term]]

C14_DebouncedReplace ==
    (search.changes > 0 /\ search.idleMs > 300) =>
        /\ search.replaceCalls # <<>>
        /\ Len(search.replaceCalls) <= search.changes
        /\ search.replaceCalls[Len(search.replaceCalls)]
              = C14_Expected(search.params, search.input)

====
